---- MODULE Spec2Model ----
(***************************************************************************)
(* A model of the consensus core of hsd: the consensus constants and       *)
(* helpers (protocol/consensus.js), the chain entry and its raw and JSON   *)
(* forms (lib/blockchain/chainentry.js), the auction view                  *)
(* (lib/covenants/view.js), the node client (lib/node/nodeclient.js) and   *)
(* the construction of the genesis block (scripts/genesis.js).             *)
(*                                                                         *)
(* Big numbers (bn.js values) are records [negative, mag]: negative is 0   *)
(* or 1 as in bn.js, mag is the magnitude as a little-endian sequence of   *)
(* bytes without leading zero bytes (zero is the empty sequence).  All     *)
(* widths are the program's: a target is up to 256 bits and more, a hash   *)
(* is 32 bytes.  Plain integers of the model are below 2^31, so compact    *)
(* values with an exponent byte of 0x80 and more, and heights, times and   *)
(* versions of 2^31 and more, are outside the inputs the model draws.      *)
(***************************************************************************)
EXTENDS Integers, Sequences, FiniteSets, TLC

VARIABLES
  call,        \* the last call of a pure consensus helper: [fn, args.., result]
  height,      \* reward schedule: the next height to be mined
  interval,    \* reward schedule: the halving interval of the network
  reward,      \* reward schedule: getReward(height, interval)
  lastReward,  \* reward schedule: the reward of the block before
  minted,      \* reward schedule: sum of the rewards of all heights below height
  blocks,      \* chain: the blocks connected so far, in order
  chain,       \* chain: the entries built from them by ChainEntry.fromBlock
  saved,       \* chain: the outcome of the last toRaw / toJSON / fromJSON call
  store,       \* view: the name hashes the auction store has a record for
  heap,        \* view: the Auction objects that exist, an object's identity is its index
  auctions,    \* view: View.auctions, a Map in insertion order of <<key, object>>
  issued,      \* view: the number of getAuction calls made so far
  pending,     \* view: the getAuction calls suspended at db.getAuction
  returned,    \* view: what each finished getAuction call returned, in order
  reads,       \* view: how often db.getAuction was called, for each name hash
  covenants,   \* view: the name hashes of the covenants of the block applied
  applied,     \* view: the number of covenants applied so far
  dirty,       \* view: the Auction objects a covenant has changed
  committed,   \* view: whether the block has been committed
  undo,        \* view: the undo log emitted at commit
  mainChain,   \* node: the entries of the main chain, genesis first
  entries,     \* node: the entries the chain knows, on the main chain or off it
  opened,      \* client: NodeClient.opened
  opens,       \* client: the number of open() calls that went through
  immediates,  \* client: the setImmediate callbacks that have not run yet
  nodeLog,     \* client: the events the node emitted, with opened at that time
  subLog,      \* client: the events the subscriber received, in order
  lookups,     \* client: the getEntry calls in progress
  results,     \* client: what each finished getEntry call returned
  filter,      \* client: NodeClient.filter, empty for null
  poolFilter,  \* client: the filter given to the pool, empty for none
  filterLoads, \* client: the number of pool.queueFilterLoad calls
  ops,         \* client: the filter and rescan calls made, in order
  scans,       \* client: the scans of the chain that rescan started, oldest first
  root,        \* genesis: the keys of the root zone snapshot, in file order
  options,     \* genesis: the options createGenesisBlock is called with
  names,       \* genesis: the sorted keys
  gpc,         \* genesis: where createGenesisBlock stands
  tx,          \* genesis: the coinbase
  genesisBlock, \* genesis: the block
  claimer,     \* genesis: the transaction that claims the names
  registry     \* genesis: the transaction that registers them

vars == <<call, height, interval, reward, lastReward, minted, blocks, chain, saved,
          store, heap, auctions, issued, pending, returned, reads,
          covenants, applied, dirty, committed, undo,
          mainChain, entries, opened, opens, immediates, nodeLog, subLog,
          lookups, results, filter, poolFilter, filterLoads, ops, scans,
          root, options, names, gpc, tx, genesisBlock, claimer, registry>>

(***************************************************************************)
(* Byte sequences and natural numbers as little-endian byte sequences.     *)
(***************************************************************************)
Byte == 0..255

Zeros(n) == <<>> \o [i \in 1..n |-> 0]

Reverse(s) == <<>> \o [i \in 1..Len(s) |-> s[Len(s) + 1 - i]]

\* drop the zero bytes at the high end (bn.js strip)
Strip(a) ==
  LET n == Len(a)
      k == CHOOSE z \in 0..n : /\ (z = n \/ a[n - z] # 0)
                               /\ \A j \in 1..z : a[n + 1 - j] = 0
  IN IF k = 0 THEN a ELSE SubSeq(a, 1, n - k)

RECURSIVE NatBytes(_)
\* the little-endian bytes of a natural number below 2^31
NatBytes(n) == IF n = 0 THEN <<>> ELSE <<n % 256>> \o NatBytes(n \div 256)

RECURSIVE BytesNat(_)
\* the number held in at most three little-endian bytes
BytesNat(a) == IF Len(a) = 0 THEN 0 ELSE a[1] + 256 * BytesNat(Tail(a))

At(a, i) == IF i >= 1 /\ i <= Len(a) THEN a[i] ELSE 0

Mid(lo, hi) == (lo + hi) \div 2

RECURSIVE CmpRange(_, _, _, _)
\* compare the bytes lo..hi of a and b, the high ones first
CmpRange(a, b, lo, hi) ==
  IF lo = hi
    THEN (IF a[lo] > b[lo] THEN 1 ELSE IF a[lo] < b[lo] THEN -1 ELSE 0)
  ELSE LET high == CmpRange(a, b, Mid(lo, hi) + 1, hi)
       IN IF high # 0 THEN high ELSE CmpRange(a, b, lo, Mid(lo, hi))

\* compare two stripped magnitudes: -1, 0, 1
MagCmp(a, b) ==
  IF Len(a) > Len(b) THEN 1
  ELSE IF Len(a) < Len(b) THEN -1
  ELSE IF Len(a) = 0 THEN 0
  ELSE CmpRange(a, b, 1, Len(a))

\* one byte of an addition; st is <<carry, bytes so far>>
AddStep(a, b, i, st) ==
  LET s == At(a, i) + At(b, i) + st[1]
  IN <<s \div 256, Append(st[2], s % 256)>>

RECURSIVE AddRange(_, _, _, _, _)
AddRange(a, b, lo, hi, st) ==
  IF lo = hi THEN AddStep(a, b, lo, st)
  ELSE LET low == AddRange(a, b, lo, Mid(lo, hi), st)
       IN IF Len(low) # 2 THEN low
          ELSE AddRange(a, b, Mid(lo, hi) + 1, hi, low)

MagAdd(a, b) ==
  IF Len(a) = 0 THEN b
  ELSE IF Len(b) = 0 THEN a
  ELSE
  LET n == IF Len(a) > Len(b) THEN Len(a) ELSE Len(b)
      st == AddRange(a, b, 1, n, <<0, (<<>>)>>)
  IN IF st[1] = 0 THEN st[2] ELSE Append(st[2], st[1])

\* one byte of a subtraction; st is <<borrow, bytes so far>>
SubStep(a, b, i, st) ==
  LET d == a[i] - At(b, i) - st[1]
  IN IF d < 0 THEN <<1, Append(st[2], d + 256)>> ELSE <<0, Append(st[2], d)>>

RECURSIVE SubRange(_, _, _, _, _)
SubRange(a, b, lo, hi, st) ==
  IF lo = hi THEN SubStep(a, b, lo, st)
  ELSE LET low == SubRange(a, b, lo, Mid(lo, hi), st)
       IN IF Len(low) # 2 THEN low
          ELSE SubRange(a, b, Mid(lo, hi) + 1, hi, low)

\* a - b for a >= b
MagSub(a, b) ==
  IF Len(b) = 0 \/ Len(a) = 0 THEN a
  ELSE Strip(SubRange(a, b, 1, Len(a), <<0, (<<>>)>>)[2])

\* 2 * a + bit
MagDouble(a, bit) ==
  IF Len(a) = 0 THEN (IF bit = 0 THEN <<>> ELSE <<bit>>)
  ELSE
  Strip(<<>> \o [i \in 1..(Len(a) + 1) |->
           ((2 * At(a, i)) % 256) + (IF i = 1 THEN bit ELSE a[i - 1] \div 128)])

MagBitLength(a) ==
  IF Len(a) = 0 THEN 0
  ELSE 8 * (Len(a) - 1) + (CHOOSE n \in 1..8 :
                             /\ a[Len(a)] >= 2 ^ (n - 1)
                             /\ a[Len(a)] < 2 ^ n)

\* one step of schoolbook long division: bring down one bit of the dividend;
\* qr is <<quotient, remainder>>
DivStep(qr, d, bit) ==
  LET r2 == MagDouble(qr[2], bit)
  IN IF MagCmp(r2, d) >= 0
       THEN <<MagDouble(qr[1], 1), MagSub(r2, d)>>
       ELSE <<MagDouble(qr[1], 0), r2>>

\* bit k of a, counted from 1 at the low end
BitAt(a, k) == (a[((k - 1) \div 8) + 1] \div (2 ^ ((k - 1) % 8))) % 2

RECURSIVE DivRange(_, _, _, _, _)
\* the bits hi down to lo of the dividend
DivRange(a, d, lo, hi, qr) ==
  IF lo = hi THEN DivStep(qr, d, BitAt(a, lo))
  ELSE LET high == DivRange(a, d, Mid(lo, hi) + 1, hi, qr)
       IN IF Len(high) # 2 THEN high
          ELSE DivRange(a, d, lo, Mid(lo, hi), high)

\* floor(a / d) for d > 0
MagDiv(a, d) ==
  IF Len(d) = 0 \/ Len(a) < Len(d) THEN <<>>
  ELSE DivRange(a, d, 1, 8 * Len(a), <<(<<>>), (<<>>)>>)[1]

\* one byte of a multiplication by a byte; st is <<carry, bytes so far>>
MulSmallStep(a, m, i, st) ==
  LET p == (a[i] * m) + st[1]
  IN <<p \div 256, Append(st[2], p % 256)>>

RECURSIVE MulSmallRange(_, _, _, _, _)
MulSmallRange(a, m, lo, hi, st) ==
  IF lo = hi THEN MulSmallStep(a, m, lo, st)
  ELSE LET low == MulSmallRange(a, m, lo, Mid(lo, hi), st)
       IN IF Len(low) # 2 THEN low
          ELSE MulSmallRange(a, m, Mid(lo, hi) + 1, hi, low)

\* a * m for a byte m
MagMulSmall(a, m) ==
  IF Len(a) = 0 \/ m = 0 THEN <<>>
  ELSE
  LET st == MulSmallRange(a, m, 1, Len(a), <<0, (<<>>)>>)
  IN Strip(IF st[1] = 0 THEN st[2] ELSE Append(st[2], st[1]))

RECURSIVE MulRange(_, _, _, _, _)
\* acc plus a times the bytes lo..hi of b, each at its place
MulRange(a, b, lo, hi, acc) ==
  IF lo = hi
    THEN (IF b[lo] = 0 THEN acc
          ELSE MagAdd(acc, Zeros(lo - 1) \o MagMulSmall(a, b[lo])))
  ELSE LET low == MulRange(a, b, lo, Mid(lo, hi), acc)
       IN IF Len(low) < 0 THEN low
          ELSE MulRange(a, b, Mid(lo, hi) + 1, hi, low)

\* a * b
MagMul(a, b) ==
  IF Len(a) = 0 \/ Len(b) = 0 THEN <<>>
  ELSE Strip(MulRange(a, b, 1, Len(b), <<>>))

(***************************************************************************)
(* bn.js, the operations the consensus code calls.                         *)
(***************************************************************************)
BN(n) == [negative |-> 0, mag |-> NatBytes(n)]

MkBN(neg, m) == [negative |-> neg, mag |-> m]

isZero(num) == Len(num.mag) = 0

isNeg(num) == num.negative # 0

ineg(num) == IF isZero(num) THEN num ELSE MkBN(1 - num.negative, num.mag)

byteLength(num) == Len(num.mag)

bitLength(num) == MagBitLength(num.mag)

\* shift left by a whole number of bytes (every shift of the code is 8 * k)
iushln(num, bits) ==
  IF isZero(num) THEN num
  ELSE MkBN(num.negative, Zeros(bits \div 8) \o num.mag)

ushrn(num, bits) ==
  LET m == IF bits \div 8 >= Len(num.mag) THEN <<>>
           ELSE SubSeq(num.mag, (bits \div 8) + 1, Len(num.mag))
  IN MkBN(IF Len(m) = 0 THEN 0 ELSE num.negative, m)

toNumber(num) ==
  IF isNeg(num) THEN 0 - BytesNat(num.mag) ELSE BytesNat(num.mag)

\* num is zero or positive
iaddn(num, n) == MkBN(num.negative, MagAdd(num.mag, NatBytes(n)))

\* a and b are zero or positive
iadd(a, b) == MkBN(0, MagAdd(a.mag, b.mag))

\* a is zero or positive, b positive
div(a, b) == MkBN(0, MagDiv(a.mag, b.mag))

gt(a, b) ==
  IF a.negative # b.negative THEN a.negative = 0
  ELSE IF a.negative = 0 THEN MagCmp(a.mag, b.mag) > 0
  ELSE MagCmp(a.mag, b.mag) < 0

\* new BN(buffer, 'be')
BNFromBuffer(buf) == MkBN(0, Strip(Reverse(buf)))

\* num.toArrayLike(Buffer, 'be', length), for a number that fits
toArrayLike(num, length) ==
  Reverse(num.mag \o Zeros(length - Len(num.mag)))

(***************************************************************************)
(* protocol/consensus.js: constants.  Amounts above 2^31 (JavaScript       *)
(* numbers, exact below 2^53) are magnitudes, as for big numbers.          *)
(***************************************************************************)
EXP == 6

COIN == 10 ^ EXP

\* a * b of two JavaScript integers whose product is exact
Amount(a, b) == MagMul(NatBytes(a), NatBytes(b))

MAX_INVESTORS == Amount(102000000, COIN)

MAX_FOUNDATION == Amount(102000000, COIN)

MAX_CREATORS == Amount(102000000, COIN)

MAX_AIRDROP == Amount(1054000000, COIN)

MAX_PREMINE == Amount(1360000000, COIN)

MAX_SUBSIDY == Amount(680000000, COIN)

MAX_MONEY == Amount(2040000000, COIN)

BASE_REWARD == 1000 * COIN

\* (4.42 * COIN) | 0: the product is the double 4420000.0, truncated
\* the 8.84 coins of the comment instead of the 4.42 coins of the code
MutGenesisReward == BASE_REWARD + ((884 * COIN) \div 100)

GENESIS_REWARD == BASE_REWARD + ((442 * COIN) \div 100)

HEADER_SIZE == 196

NONCE_POS == 176

NONCE_SIZE == 20

\* NULL_HASH, a hex string: 64 hex digits
NULL_HASH == Zeros(64)

ZERO_NONCE == Zeros(NONCE_SIZE)

(***************************************************************************)
(* protocol/consensus.js: compact targets and proof of work.               *)
(***************************************************************************)
\* fromCompact with the exponent bias off by one
MutFromCompact(compact) ==
  IF compact = 0 THEN BN(0)
  ELSE
    LET exponent == compact \div (2 ^ 24)
        negative == (compact \div (2 ^ 23)) % 2
        mantissa == compact % (2 ^ 23)
        num == IF exponent <= 2
                 THEN BN(mantissa \div (2 ^ (8 * (2 - exponent))))
                 ELSE iushln(BN(mantissa), 8 * (exponent - 2))
    IN IF negative # 0 THEN ineg(num) ELSE num

fromCompact(compact) ==
  IF compact = 0 THEN BN(0)
  ELSE
    LET exponent == compact \div (2 ^ 24)
        negative == (compact \div (2 ^ 23)) % 2
        mantissa == compact % (2 ^ 23)
        num == IF exponent <= 3
                 THEN BN(mantissa \div (2 ^ (8 * (3 - exponent))))
                 ELSE iushln(BN(mantissa), 8 * (exponent - 3))
    IN IF negative # 0 THEN ineg(num) ELSE num

\* toCompact without the exponent increment that keeps the sign bit clear
MutToCompactNormal(mantissa, exponent) == <<mantissa, exponent>>

\* the mantissa and exponent after the sign-bit normalisation
toCompactNormal(mantissa, exponent) ==
  IF (mantissa \div (2 ^ 23)) % 2 = 1
    THEN <<mantissa \div 256, exponent + 1>>
    ELSE <<mantissa, exponent>>

\* num is zero or positive: a negative num goes through the int32 shifts
\* with a negative mantissa
toCompact(num) ==
  IF isZero(num) THEN 0
  ELSE
    LET exponent == byteLength(num)
        mantissa == IF exponent <= 3
                      THEN toNumber(num) * (2 ^ (8 * (3 - exponent)))
                      ELSE toNumber(ushrn(num, 8 * (exponent - 3)))
        me == toCompactNormal(mantissa, exponent)
        compact == ((me[2] % 256) * (2 ^ 24)) + me[1]
    IN IF isNeg(num) THEN compact + (2 ^ 23) ELSE compact

\* verifyPOW rejecting a hash equal to the target (gte for gt)
MutVerifyPOW(hash, bits) ==
  LET target == fromCompact(bits)
  IN IF isNeg(target) \/ isZero(target) THEN FALSE
     ELSE IF bitLength(target) > 256 THEN FALSE
     ELSE IF ~gt(target, BNFromBuffer(hash)) THEN FALSE
     ELSE TRUE

verifyPOW(hash, bits) ==
  LET target == fromCompact(bits)
  IN IF isNeg(target) \/ isZero(target) THEN FALSE
     ELSE IF bitLength(target) > 256 THEN FALSE
     ELSE IF gt(BNFromBuffer(hash), target) THEN FALSE
     ELSE TRUE

(***************************************************************************)
(* protocol/consensus.js: the block subsidy.                               *)
(***************************************************************************)
\* Math.floor(x / Math.pow(2, n)) for 0 <= x < 2^30
FloorDivPow2(x, n) == IF n >= 30 THEN 0 ELSE x \div (2 ^ n)

\* getReward counting one halving too many
MutGetReward(h, ival) ==
  IF ival = 0 THEN (IF h = 0 THEN "NaN" ELSE 0)
  ELSE LET halvings == (h \div ival) + 1
       IN IF halvings >= 52 THEN 0
          ELSE FloorDivPow2(BASE_REWARD, halvings)

\* interval = 0 passes the assertions: height / 0 is Infinity (0 / 0 is NaN)
getReward(h, ival) ==
  IF ival = 0 THEN (IF h = 0 THEN "NaN" ELSE 0)
  ELSE LET halvings == h \div ival
       IN IF halvings >= 52 THEN 0
          ELSE FloorDivPow2(BASE_REWARD, halvings)

(***************************************************************************)
(* The values each subsystem holds while another one runs.                 *)
(***************************************************************************)
NoCall == [fn |-> "none", arg |-> <<>>, via |-> 0, result |-> 0]

NoSaved == [op |-> "none"]

CompactIdle == call = NoCall

RewardIdle ==
  /\ height = 0
  /\ interval = 0
  /\ reward = 0
  /\ lastReward = 0
  /\ minted = <<>>

ChainIdle ==
  /\ blocks = <<>>
  /\ chain = <<>>
  /\ saved = NoSaved

rewardVars == <<height, interval, reward, lastReward, minted>>

chainVars == <<blocks, chain, saved>>

ViewIdle ==
  /\ store = {}
  /\ heap = <<>>
  /\ auctions = <<>>
  /\ issued = 0
  /\ pending = {}
  /\ returned = <<>>
  /\ reads = <<>>
  /\ covenants = <<>>
  /\ applied = 0
  /\ dirty = {}
  /\ committed = FALSE
  /\ undo = <<>>

applyVars == <<covenants, applied, dirty, committed, undo>>

viewVars == <<store, heap, auctions, issued, pending, returned, reads, applyVars>>

clientVars == <<mainChain, entries, opened, opens, immediates, nodeLog, subLog,
                lookups, results, filter, poolFilter, filterLoads, ops, scans>>

ClientIdle ==
  /\ mainChain = <<>>
  /\ entries = {}
  /\ opened = FALSE
  /\ opens = 0
  /\ immediates = <<>>
  /\ nodeLog = <<>>
  /\ subLog = <<>>
  /\ lookups = {}
  /\ results = <<>>
  /\ filter = <<>>
  /\ poolFilter = <<>>
  /\ filterLoads = 0
  /\ ops = <<>>
  /\ scans = <<>>

NoTX == [version |-> 0, inputs |-> <<>>, outputs |-> <<>>, locktime |-> 0, cache |-> <<>>]

NoBlock == [txs |-> <<>>]

GenesisIdle ==
  /\ root = <<>>
  /\ options = [network |-> "none", time |-> 0]
  /\ names = <<>>
  /\ gpc = "idle"
  /\ tx = NoTX
  /\ genesisBlock = NoBlock
  /\ claimer = NoTX
  /\ registry = NoTX

genesisVars == <<root, options, names, gpc, tx, genesisBlock, claimer, registry>>

ServiceIdle == ViewIdle /\ ClientIdle /\ GenesisIdle

serviceVars == <<viewVars, clientVars, genesisVars>>

(***************************************************************************)
(* Inputs of the compact-target helpers.                                   *)
(***************************************************************************)
\* the largest exponent byte drawn (0x22: targets of up to 34 bytes)
MaxExponent == 34

\* the largest left shift, in bits, of a seed
MaxShift == 255

\* the low 24 bits of a compact: mantissas with and without the sign bit
Mantissas ==
  {0, 1, 127, 128, 32768, 65535, 65536, 1193047, 8388607,
   8388608, 8388609, 9581654, 16777215}

Compacts == {(e * (2 ^ 24)) + m : e \in 0..MaxExponent, m \in Mantissas}

\* a * 2^s
MagShl(a, s) == Strip(Zeros(s \div 8) \o MagMulSmall(a, 2 ^ (s % 8)))

\* 23 bits and fewer (the first nine), 24 and 25 bits (the last two)
Seeds == {1, 3, 128, 255, 32769, 65535, 1193047, 4194305, 8388607,
          16777215, 16777217}

Nums == {BN(0)} \cup {MkBN(0, MagShl(NatBytes(m), s)) : m \in Seeds, s \in 0..MaxShift}

\* 256^k
Pow256(k) == Zeros(k) \o <<1>>

\* the magnitude a compact stands for: mantissa * 256^(exponent - 3), truncated
CompactMag(c) ==
  LET e == c \div (2 ^ 24)
      m == c % (2 ^ 23)
  IN IF e <= 3 THEN NatBytes(m \div (256 ^ (3 - e)))
     ELSE MagMul(NatBytes(m), Pow256(e - 3))

CompactSign(c) == (c \div (2 ^ 23)) % 2

\* a 32-byte big-endian buffer holding a magnitude below 2^256
Hash32(m) == Reverse(m \o Zeros(32 - Len(m)))

\* the hashes tried against bits: the extremes, and the target's neighbours
HashesFor(bits) ==
  LET t == CompactMag(bits)
      near == {t, MagAdd(t, <<1>>)} \cup (IF Len(t) = 0 THEN {} ELSE {MagSub(t, <<1>>)})
  IN {Zeros(32), [i \in 1..32 |-> 255]}
       \cup {Hash32(m) : m \in {n \in near : Len(n) <= 32}}

(***************************************************************************)
(* The compact-target helpers, called one at a time.                       *)
(***************************************************************************)
CallFromCompact(c) ==
  /\ call.fn = "none"
  /\ call' = [fn |-> "fromCompact", arg |-> <<c>>, via |-> 0,
              result |-> fromCompact(c)]
  /\ UNCHANGED <<rewardVars, chainVars, serviceVars>>

CallToCompact(num) ==
  /\ call.fn = "none"
  /\ call' = [fn |-> "toCompact", arg |-> <<num>>, via |-> 0,
              result |-> toCompact(num)]
  /\ UNCHANGED <<rewardVars, chainVars, serviceVars>>

\* fromCompact(toCompact(num)): decode what toCompact returned
DecodeResult ==
  /\ call.fn = "toCompact"
  /\ call' = [fn |-> "fromCompact(toCompact)", arg |-> call.arg,
              via |-> call.result, result |-> fromCompact(call.result)]
  /\ UNCHANGED <<rewardVars, chainVars, serviceVars>>

\* toCompact(fromCompact(c)): encode what fromCompact returned
EncodeResult ==
  /\ call.fn = "fromCompact"
  /\ ~isNeg(call.result)
  /\ call' = [fn |-> "toCompact(fromCompact)", arg |-> call.arg,
              via |-> call.result, result |-> toCompact(call.result)]
  /\ UNCHANGED <<rewardVars, chainVars, serviceVars>>

\* toCompact(fromCompact(c)) for the c that toCompact returned
ReEncodeResult ==
  /\ call.fn = "fromCompact(toCompact)"
  /\ ~isNeg(call.result)
  /\ call' = [fn |-> "toCompact(fromCompact(toCompact))", arg |-> call.arg,
              via |-> call.via, result |-> toCompact(call.result)]
  /\ UNCHANGED <<rewardVars, chainVars, serviceVars>>

CallVerifyPOW(hash, bits) ==
  /\ call.fn = "none"
  /\ call' = [fn |-> "verifyPOW", arg |-> <<hash, bits>>, via |-> 0,
              result |-> verifyPOW(hash, bits)]
  /\ UNCHANGED <<rewardVars, chainVars, serviceVars>>

Return ==
  /\ call.fn # "none"
  /\ call' = NoCall
  /\ UNCHANGED <<rewardVars, chainVars, serviceVars>>

InitCompact == CompactIdle /\ RewardIdle /\ ChainIdle /\ ServiceIdle

NextCompact ==
  \/ \E c \in Compacts : CallFromCompact(c)
  \/ \E num \in Nums : CallToCompact(num)
  \/ DecodeResult
  \/ EncodeResult
  \/ ReEncodeResult
  \/ \E bits \in Compacts : \E hash \in HashesFor(bits) : CallVerifyPOW(hash, bits)
  \/ Return

SpecCompact == InitCompact /\ [][NextCompact]_vars

(***************************************************************************)
(* The subsidy schedule: blocks are mined at consecutive heights under a   *)
(* fixed halving interval.  height is the height of the next block, reward *)
(* its subsidy, lastReward the subsidy at the height the last step left,   *)
(* and minted the sum of getReward over all the heights below height.      *)
(***************************************************************************)
\* the small halving intervals mined block by block
MaxInterval == 2

\* the number of halving eras mined
MaxEras == 53

\* the height at which the supply runs dry (comment of GENESIS_REWARD)
ExhaustionHeight == 10200000

\* the number of halvings that brings BASE_REWARD to zero
ZeroHalvings ==
  CHOOSE k \in 1..52 : /\ FloorDivPow2(BASE_REWARD, k) = 0
                       /\ FloorDivPow2(BASE_REWARD, k - 1) # 0

\* the network's halving interval
HalvingInterval == ExhaustionHeight \div ZeroHalvings

Intervals == (1..MaxInterval) \cup {HalvingInterval}

InitReward ==
  /\ CompactIdle
  /\ ChainIdle
  /\ ServiceIdle
  /\ interval \in Intervals
  /\ height = 0
  /\ reward = getReward(0, interval)
  /\ lastReward = reward
  /\ minted = <<>>

\* one block at height
MineBlock ==
  /\ interval <= MaxInterval
  /\ height < MaxEras * interval
  /\ minted' = MagAdd(minted, NatBytes(getReward(height, interval)))
  /\ height' = height + 1
  /\ reward' = getReward(height + 1, interval)
  /\ lastReward' = reward
  /\ UNCHANGED <<interval, call, chainVars, serviceVars>>

\* the interval blocks of one era, from its first height on
MineEra ==
  /\ height % interval = 0
  /\ height < MaxEras * interval
  /\ \A h \in {height, height + (interval \div 2), height + interval - 1} :
       getReward(h, interval) = getReward(height, interval)
  /\ minted' = MagAdd(minted, MagMul(NatBytes(interval),
                                     NatBytes(getReward(height, interval))))
  /\ height' = height + interval
  /\ reward' = getReward(height + interval, interval)
  /\ lastReward' = reward
  /\ UNCHANGED <<interval, call, chainVars, serviceVars>>

NextReward == MineBlock \/ MineEra

SpecReward == InitReward /\ [][NextReward]_vars

(***************************************************************************)
(* lib/blockchain/chainentry.js.  A hex string is the sequence of its hex  *)
(* digits (0..15), a Buffer the sequence of its bytes.  An optional entry  *)
(* (prev, which may be null) is a sequence of none or one entry.           *)
(***************************************************************************)
ZERO == BN(0)

\* new BN(1).ushln(256)
MAX_CHAINWORK == MkBN(0, Pow256(32))

\* getProof returning the target instead of the work it stands for
MutGetProof(this) ==
  LET target == fromCompact(this.bits)
  IN IF isNeg(target) \/ isZero(target) THEN BN(0)
     ELSE iaddn(target, 1)

getProof(this) ==
  LET target == fromCompact(this.bits)
  IN IF isNeg(target) \/ isZero(target) THEN BN(0)
     ELSE div(MAX_CHAINWORK, iaddn(target, 1))

getChainwork(this, prev) ==
  LET proof == getProof(this)
  IN IF Len(prev) = 0 THEN proof
     ELSE iadd(proof, prev[1].chainwork)

isGenesis(this) == this.height = 0

\* fromBlock counting the genesis entry as height 1
MutFromBlock(block, prev) ==
  LET this == [hash |-> block.hash,
               version |-> block.version,
               prevBlock |-> block.prevBlock,
               merkleRoot |-> block.merkleRoot,
               witnessRoot |-> block.witnessRoot,
               treeRoot |-> block.treeRoot,
               time |-> block.time,
               bits |-> block.bits,
               nonce |-> block.nonce,
               solution |-> block.solution,
               height |-> IF Len(prev) > 0 THEN prev[1].height + 1 ELSE 1,
               chainwork |-> ZERO]
  IN [this EXCEPT !.chainwork = getChainwork(this, prev)]

fromBlock(block, prev) ==
  LET this == [hash |-> block.hash,
               version |-> block.version,
               prevBlock |-> block.prevBlock,
               merkleRoot |-> block.merkleRoot,
               witnessRoot |-> block.witnessRoot,
               treeRoot |-> block.treeRoot,
               time |-> block.time,
               bits |-> block.bits,
               nonce |-> block.nonce,
               solution |-> block.solution,
               height |-> IF Len(prev) > 0 THEN prev[1].height + 1 ELSE 0,
               chainwork |-> ZERO]
  IN [this EXCEPT !.chainwork = getChainwork(this, prev)]

(***************************************************************************)
(* The writer and reader of bufio, and the Solution of bcuckoo, as the     *)
(* chain entry uses them.  bio.write(size) is a writer over a buffer of    *)
(* exactly size bytes; render() hands the buffer out only when every byte  *)
(* of it was written.                                                      *)
(***************************************************************************)
\* Buffer.from(hex, 'hex')
HexToBytes(h) == <<>> \o [i \in 1..(Len(h) \div 2) |-> (16 * h[(2 * i) - 1]) + h[2 * i]]

\* buffer.toString('hex')
BytesToHex(b) ==
  <<>> \o [i \in 1..(2 * Len(b)) |->
             IF i % 2 = 1 THEN b[(i + 1) \div 2] \div 16 ELSE b[i \div 2] % 16]

\* writeU32: four bytes, little-endian
U32Bytes(v) == <<v % 256, (v \div 256) % 256, (v \div 65536) % 256, (v \div 16777216) % 256>>

\* writeU64: eight bytes, little-endian; the high word of a value below 2^31 is zero
U64Bytes(v) == U32Bytes(v) \o Zeros(4)

\* readU32
ReadU32(b) == b[1] + (256 * b[2]) + (65536 * b[3]) + (16777216 * b[4])

\* readU64 of a value below 2^31
ReadU64(b) == ReadU32(SubSeq(b, 1, 4))

RECURSIVE SolutionBytes(_)
\* solution.toWriter(bw): the edges, four bytes each, after a one-byte count
SolutionBytes(sol) ==
  IF Len(sol) = 0 THEN <<>> ELSE U32Bytes(sol[1]) \o SolutionBytes(Tail(sol))

SolutionToWriter(sol) == <<Len(sol)>> \o SolutionBytes(sol)

\* solution.getSize()
SolutionSize(sol) == 1 + (4 * Len(sol))

\* Solution.fromReader(br), from the bytes left
SolutionFromReader(b) ==
  <<>> \o [i \in 1..b[1] |-> ReadU32(SubSeq(b, (4 * i) - 2, (4 * i) + 1))]

\* solution.toJSON() and Solution.fromJSON(json): the list of edges
SolutionToJSON(sol) == sol

SolutionFromJSON(json) == json

\* chainwork.toString('hex', 64): hex digits, zero-padded to a multiple of 64
BNToHex(num, padding) ==
  LET digits == 2 * Len(num.mag)
      width == IF digits = 0 THEN padding
               ELSE padding * ((digits + padding - 1) \div padding)
  IN BytesToHex(Reverse(num.mag \o Zeros((width \div 2) - Len(num.mag))))

(***************************************************************************)
(* lib/blockchain/chainentry.js: the raw and the JSON form.                *)
(***************************************************************************)
getSize(this) == 36 + HEADER_SIZE + SolutionSize(this.solution) + 32

\* the header fields as toRaw writes them, between the height and the solution
HeaderFields(this) ==
  << U32Bytes(this.version),
     HexToBytes(this.prevBlock),
     HexToBytes(this.merkleRoot),
     HexToBytes(this.witnessRoot),
     HexToBytes(this.treeRoot),
     U64Bytes(this.time),
     U32Bytes(this.bits),
     this.nonce >>

RECURSIVE Flatten(_)
Flatten(parts) == IF Len(parts) = 0 THEN <<>> ELSE parts[1] \o Flatten(Tail(parts))

\* the bytes toRaw writes before render(), when the chainwork fits 32 bytes
RawWritten(this) ==
  HexToBytes(this.hash)
    \o U32Bytes(this.height)
    \o Flatten(HeaderFields(this))
    \o SolutionToWriter(this.solution)
    \o toArrayLike(this.chainwork, 32)

\* toRaw: [ok, data, size]; ok is false when toArrayLike or render() throws
toRaw(this) ==
  IF byteLength(this.chainwork) > 32
    THEN [ok |-> FALSE, data |-> <<>>, size |-> getSize(this)]
  ELSE LET written == RawWritten(this)
       IN [ok |-> Len(written) = getSize(this),
           data |-> written,
           size |-> getSize(this)]

\* fromRaw of data that holds every field
fromRaw(data) ==
  LET sol == SolutionFromReader(SubSeq(data, 201, Len(data)))
      at == 200 + SolutionSize(sol)
  IN [hash |-> BytesToHex(SubSeq(data, 1, 32)),
      height |-> ReadU32(SubSeq(data, 33, 36)),
      version |-> ReadU32(SubSeq(data, 37, 40)),
      prevBlock |-> BytesToHex(SubSeq(data, 41, 72)),
      merkleRoot |-> BytesToHex(SubSeq(data, 73, 104)),
      witnessRoot |-> BytesToHex(SubSeq(data, 105, 136)),
      treeRoot |-> BytesToHex(SubSeq(data, 137, 168)),
      time |-> ReadU64(SubSeq(data, 169, 176)),
      bits |-> ReadU32(SubSeq(data, 177, 180)),
      nonce |-> SubSeq(data, 181, 180 + NONCE_SIZE),
      solution |-> sol,
      chainwork |-> BNFromBuffer(SubSeq(data, at + 1, at + 32))]

toJSON(this) ==
  [hash |-> this.hash,
   height |-> this.height,
   version |-> this.version,
   prevBlock |-> this.prevBlock,
   merkleRoot |-> this.merkleRoot,
   witnessRoot |-> this.witnessRoot,
   treeRoot |-> this.treeRoot,
   time |-> this.time,
   bits |-> this.bits,
   nonce |-> BytesToHex(this.nonce),
   solution |-> SolutionToJSON(this.solution),
   chainwork |-> BNToHex(this.chainwork, 64)]

\* the first assertion of fromJSON that fails, by its line, or 0
FromJSONFailure(json) ==
  IF Len(json.hash) # 64 THEN 309
  ELSE IF Len(json.prevBlock) # 64 THEN 313
  ELSE IF Len(json.merkleRoot) # 64 THEN 315
  ELSE IF Len(json.witnessRoot) # 64 THEN 317
  ELSE IF Len(json.treeRoot) # 64 THEN 319
  ELSE IF Len(json.nonce) # 32 THEN 323
  ELSE IF Len(json.chainwork) # 64 THEN 324
  ELSE IF Len(HexToBytes(json.nonce)) # NONCE_SIZE THEN 327
  ELSE IF Len(HexToBytes(json.chainwork)) # 32 THEN 330
  ELSE 0

\* fromJSON: [ok, failed, entry]; ok is false when an assertion throws
fromJSON(json) ==
  IF FromJSONFailure(json) # 0
    THEN [ok |-> FALSE, failed |-> FromJSONFailure(json), entry |-> <<>>]
  ELSE [ok |-> TRUE, failed |-> 0,
        entry |-> << [hash |-> json.hash,
                      height |-> json.height,
                      version |-> json.version,
                      prevBlock |-> json.prevBlock,
                      merkleRoot |-> json.merkleRoot,
                      witnessRoot |-> json.witnessRoot,
                      treeRoot |-> json.treeRoot,
                      time |-> json.time,
                      bits |-> json.bits,
                      nonce |-> HexToBytes(json.nonce),
                      solution |-> SolutionFromJSON(json.solution),
                      chainwork |-> BNFromBuffer(HexToBytes(json.chainwork))] >>]

(***************************************************************************)
(* The chain: blocks are connected one after the other, each entry built   *)
(* by fromBlock from the block and the entry before it (none for the       *)
(* first).  blocks keeps the blocks the entries were built from, saved the *)
(* outcome of the last toRaw, toJSON or fromJSON.                          *)
(***************************************************************************)
\* the longest chain built
MaxChain == 3

\* the number of edges of a solution
MaxSolution == 2

\* a 64-digit hex string that stands for the digest numbered a
HexPattern(a) == <<>> \o [i \in 1..64 |-> ((a * a) + (a * i) + (i * i)) % 16]

Solutions == {Zeros(MaxSolution), <<>> \o [i \in 1..MaxSolution |-> 16909060 * i]}

\* what a block carries besides its place in the chain: 0x1d00ffff, the
\* widest 256-bit target, a zero target, a negative target, the target 1
\* and a target of 264 bits
Templates ==
  { [id |-> 1, version |-> 0, time |-> 1514765688, bits |-> 486604799,
     nonce |-> ZERO_NONCE, solution |-> Zeros(MaxSolution)],
    [id |-> 2, version |-> 1, time |-> 1514765689, bits |-> 545259519,
     nonce |-> <<>> \o [i \in 1..NONCE_SIZE |-> 255 - i],
     solution |-> <<>> \o [i \in 1..MaxSolution |-> 16909060 * i]],
    [id |-> 3, version |-> 2, time |-> 1514765690, bits |-> 0,
     nonce |-> ZERO_NONCE, solution |-> <<>>],
    [id |-> 4, version |-> 536870912, time |-> 1514765691, bits |-> 494993407,
     nonce |-> ZERO_NONCE, solution |-> Zeros(MaxSolution)],
    [id |-> 5, version |-> 3, time |-> 1514765692, bits |-> 50331649,
     nonce |-> <<>> \o [i \in 1..NONCE_SIZE |-> i], solution |-> <<>>],
    [id |-> 6, version |-> 4, time |-> 1514765693, bits |-> 570490879,
     nonce |-> ZERO_NONCE, solution |-> Zeros(MaxSolution)] }

\* the blocks that are also saved and exported
CodecTemplates == {t \in Templates : t.id \in {2, 5}}

\* the block of template t on top of prev
BlockOf(t, prev) ==
  [hash |-> HexPattern((16 * (Len(prev) + Len(chain))) + t.id),
   version |-> t.version,
   prevBlock |-> IF Len(prev) = 0 THEN NULL_HASH ELSE prev[1].hash,
   merkleRoot |-> HexPattern(100 + t.id),
   witnessRoot |-> HexPattern(200 + t.id),
   treeRoot |-> HexPattern(300 + t.id),
   time |-> t.time + Len(chain),
   bits |-> t.bits,
   nonce |-> t.nonce,
   solution |-> t.solution]

\* the tip, or none
Tip == IF Len(chain) = 0 THEN <<>> ELSE <<chain[Len(chain)]>>

InitChain == CompactIdle /\ RewardIdle /\ ChainIdle /\ ServiceIdle

\* ChainEntry.fromBlock(block, tip)
Connect(t) ==
  /\ Len(chain) < MaxChain
  /\ LET block == BlockOf(t, Tip)
     IN /\ blocks' = Append(blocks, block)
        /\ chain' = Append(chain, fromBlock(block, Tip))
  /\ UNCHANGED <<call, rewardVars, saved, serviceVars>>

\* entry.toRaw()
Save(i) ==
  /\ saved' = [op |-> "toRaw", index |-> i, out |-> toRaw(chain[i])]
  /\ UNCHANGED <<call, rewardVars, blocks, chain, serviceVars>>

\* entry.toJSON()
Export(i) ==
  /\ saved' = [op |-> "toJSON", index |-> i, out |-> toJSON(chain[i])]
  /\ UNCHANGED <<call, rewardVars, blocks, chain, serviceVars>>

\* ChainEntry.fromJSON(json) of the object last exported
Import ==
  /\ saved.op = "toJSON"
  /\ saved' = [op |-> "fromJSON", index |-> saved.index, out |-> fromJSON(saved.out)]
  /\ UNCHANGED <<call, rewardVars, blocks, chain, serviceVars>>

NextChain == \E t \in Templates : Connect(t)

SpecChain == InitChain /\ [][NextChain]_vars

NextCodec ==
  \/ \E t \in CodecTemplates : Connect(t)
  \/ \E i \in 1..Len(chain) : Save(i)
  \/ \E i \in 1..Len(chain) : Export(i)
  \/ Import

SpecCodec == InitChain /\ [][NextCodec]_vars

(***************************************************************************)
(* Properties of the compact-target helpers.                               *)
(***************************************************************************)
\* a <= b for two buffers of the same length read as big-endian numbers
BufLeq(a, b) ==
  LET d == {i \in 1..Len(a) : a[i] # b[i]}
  IN d = {} \/ (LET k == CHOOSE i \in d : \A j \in d : i <= j IN a[k] < b[k])

\* C3: verifyPOW(hash, bits) is true exactly when the target decoded from
\* bits is positive, is below 2^256 (a bit length of at most 256) and the
\* hash, read as a big-endian number, is at most the target.
C3_VerifyPOW ==
  call.fn = "verifyPOW" =>
    LET hash == call.arg[1]
        target == fromCompact(call.arg[2])
    IN call.result = (/\ target.negative = 0
                      /\ Len(target.mag) > 0
                      /\ Len(target.mag) <= 32
                      /\ BufLeq(hash, Hash32(target.mag)))

\* verifyPOW accepted a hash equal to the target of 0x1d00ffff
C3_Witness ==
  /\ call.fn = "verifyPOW"
  /\ call.arg[2] = 486604799
  /\ call.arg[1] = Hash32(CompactMag(486604799))
  /\ call.result = TRUE

\* the number of zero bytes at the low end of a magnitude that is not zero
LowZeroBytes(m) == (CHOOSE i \in 1..Len(m) : m[i] # 0 /\ \A j \in 1..(i - 1) : m[j] = 0) - 1

\* the number of zero bits at the low end of a byte that is not zero
LowZeroBits(b) == CHOOSE n \in 0..7 : b % (2 ^ (n + 1)) = 2 ^ n

\* the number of bits from the lowest set bit to the highest
SpanBits(m) == MagBitLength(m) - ((8 * LowZeroBytes(m)) + LowZeroBits(m[LowZeroBytes(m) + 1]))

\* m * 256^k with 0 < m <= 0x7fffff: a mantissa of at most 23 bits on a byte boundary
ByteAligned23(m) ==
  LET rest == SubSeq(m, LowZeroBytes(m) + 1, Len(m))
  IN Len(rest) <= 3 /\ BytesNat(rest) <= 8388607

IsPositive256(num) == num.negative = 0 /\ Len(num.mag) > 0 /\ Len(num.mag) <= 32

\* C4 as stated: fromCompact(toCompact(x)) = x for every positive x below
\* 2^256 whose significant bits span at most 23 bits, at any bit position.
C4_AnyBitPosition ==
  (/\ call.fn = "fromCompact(toCompact)"
   /\ IsPositive256(call.arg[1])
   /\ SpanBits(call.arg[1].mag) <= 23) => call.result = call.arg[1]

\* C4 amended: fromCompact(toCompact(x)) = x for every positive x below
\* 2^256 of the form m * 256^k with 0 < m <= 0x7fffff (a mantissa of at most
\* 23 bits that ends on a byte boundary).
C4_ByteAligned ==
  (/\ call.fn = "fromCompact(toCompact)"
   /\ IsPositive256(call.arg[1])
   /\ ByteAligned23(call.arg[1].mag)) => call.result = call.arg[1]

\* the round trip of 0xffff * 2^240: 32 bytes with the top bit set, which
\* toCompact encodes with exponent 33
C4_Witness ==
  /\ call.fn = "fromCompact(toCompact)"
  /\ call.arg[1] = MkBN(0, Zeros(30) \o <<255, 255>>)
  /\ call.via = 553713663
  /\ call.result = call.arg[1]

\* the top bit of the top byte of a magnitude
TopBit(m) == IF Len(m) = 0 THEN 0 ELSE m[Len(m)] \div 128

\* C5 as stated: toCompact(fromCompact(0x1d00ffff)) = 0x1d00ffff, and every
\* compact c that toCompact produces from a positive number is encoded back
\* to itself, has the sign bit clear and has the byte length of its decoded
\* target as exponent.
C5_ExponentIsByteLength ==
  /\ (call.fn = "toCompact(fromCompact)" /\ call.arg[1] = 486604799)
        => call.result = 486604799
  /\ (call.fn = "toCompact(fromCompact(toCompact))" /\ IsPositive256(call.arg[1]))
        => /\ call.result = call.via
           /\ CompactSign(call.via) = 0
           /\ call.via \div (2 ^ 24) = byteLength(fromCompact(call.via))

\* C5 amended: toCompact(fromCompact(0x1d00ffff)) = 0x1d00ffff, and every
\* compact c that toCompact produces from a positive number below 2^256 is
\* encoded back to itself, has the sign bit clear, and has as exponent the
\* byte length of its decoded target, plus one when the top bit of the
\* target's top byte is set.
C5_RoundTrip ==
  /\ (call.fn = "toCompact(fromCompact)" /\ call.arg[1] = 486604799)
        => call.result = 486604799
  /\ (call.fn = "toCompact(fromCompact(toCompact))" /\ IsPositive256(call.arg[1]))
        => LET target == fromCompact(call.via)
           IN /\ call.result = call.via
              /\ CompactSign(call.via) = 0
              /\ call.via \div (2 ^ 24) = byteLength(target) + TopBit(target.mag)

\* 0x1d00ffff, produced by toCompact from 0xffff * 2^208 and encoded back
C5_Witness ==
  /\ call.fn = "toCompact(fromCompact(toCompact))"
  /\ call.arg[1] = MkBN(0, Zeros(26) \o <<255, 255>>)
  /\ call.via = 486604799
  /\ call.result = 486604799

(***************************************************************************)
(* Properties of the subsidy schedule.                                     *)
(***************************************************************************)
RECURSIVE Halved(_, _)
\* x halved n times, truncating each time
Halved(x, n) == IF n = 0 \/ x = 0 THEN x ELSE Halved(x \div 2, n - 1)

\* C6: the subsidy at a height is BASE_REWARD (1000 * COIN) halved
\* floor(height / interval) times with truncation, and 0 from 52 halvings
\* on; it is 1000 * COIN at height 0, 500 * COIN at height interval, 0 at
\* height 52 * interval, and it never increases as the height increases.
C6_RewardSchedule ==
  /\ reward = Halved(1000 * COIN, height \div interval)
  /\ (height \div interval >= 52 => reward = 0)
  /\ (height = 0 => reward = 1000 * COIN)
  /\ (height = interval => reward = 500 * COIN)
  /\ (height = 52 * interval => reward = 0)
  /\ reward <= lastReward

\* C6: a small interval mined past its second halving, with truncation
C6_Witness ==
  /\ interval = 2
  /\ height = 2 * 10
  /\ reward = 976562
  /\ lastReward = 1953125

\* the extra that the genesis reward carries over BASE_REWARD
GenesisExtra == GENESIS_REWARD - BASE_REWARD

\* C7: under the network's halving interval of 340,000 blocks the subsidy
\* of all heights plus the 4,420,000 subunits added to the genesis reward
\* never exceeds MAX_SUBSIDY and equals it once the subsidy has reached
\* zero; the four premine allocations add up to MAX_PREMINE, and
\* MAX_PREMINE plus MAX_SUBSIDY is MAX_MONEY.
C7_SupplyCap ==
  interval = 340000 =>
    /\ HalvingInterval = 340000
    /\ GenesisExtra = 4420000
    /\ MagCmp(MagAdd(minted, NatBytes(GenesisExtra)), MAX_SUBSIDY) <= 0
    /\ (reward = 0 => MagAdd(minted, NatBytes(GenesisExtra)) = MAX_SUBSIDY)
    /\ MagAdd(MagAdd(MAX_INVESTORS, MAX_FOUNDATION),
              MagAdd(MAX_CREATORS, MAX_AIRDROP)) = MAX_PREMINE
    /\ (reward = 0 =>
          MagAdd(MAX_PREMINE, MagAdd(minted, NatBytes(GenesisExtra))) = MAX_MONEY)

\* C7: the network's schedule mined out, far past the last paying height
C7_Witness ==
  /\ interval = HalvingInterval
  /\ height = 52 * HalvingInterval
  /\ height > ExhaustionHeight
  /\ reward = 0
  /\ MagAdd(minted, NatBytes(GenesisExtra)) = MAX_SUBSIDY

(***************************************************************************)
(* Properties of the chain entries.                                        *)
(***************************************************************************)
\* w is the integer quotient of 2^256 by d
IsQuotient(w, d) ==
  /\ MagCmp(MagMul(w, d), Pow256(32)) <= 0
  /\ MagCmp(MagMul(MagAdd(w, <<1>>), d), Pow256(32)) > 0

\* w is the proof of bits: floor(2^256 / (target + 1)), or zero when the
\* target is zero or negative
IsProof(w, bits) ==
  IF CompactSign(bits) = 1 \/ CompactMag(bits) = <<>>
    THEN w = <<>>
  ELSE IsQuotient(w, MagAdd(CompactMag(bits), <<1>>))

\* C1: the chainwork of every entry built by fromBlock is the chainwork of
\* its parent plus proof(bits), and proof(bits) alone for the entry built
\* with no parent, where proof(bits) = floor(2^256 / (target(bits) + 1))
\* and 0 when the target is zero or negative.
C1_Chainwork ==
  \A i \in 1..Len(chain) :
    LET before == IF i = 1 THEN <<>> ELSE chain[i - 1].chainwork.mag
        work == chain[i].chainwork
    IN /\ work.negative = 0
       /\ MagCmp(work.mag, before) >= 0
       /\ IsProof(MagSub(work.mag, before), chain[i].bits)

\* C1: three blocks of target 0x1d00ffff, each worth 0x100010001
C1_Witness ==
  /\ Len(chain) = 3
  /\ \A i \in 1..3 : chain[i].bits = 486604799
  /\ chain[1].chainwork = MkBN(0, <<1, 0, 1, 0, 1>>)
  /\ chain[3].chainwork = MkBN(0, <<3, 0, 3, 0, 3>>)

\* C2: fromBlock gives the entry the height of its parent plus one, and 0
\* with no parent, and copies every header field of the block; heights
\* are consecutive from 0 and isGenesis holds of the first entry only.
C2_HeightAndHeader ==
  /\ Len(blocks) = Len(chain)
  /\ \A i \in 1..Len(chain) :
       /\ chain[i].height = i - 1
       /\ (i > 1 => chain[i].height = chain[i - 1].height + 1)
       /\ (isGenesis(chain[i]) <=> i = 1)
       /\ chain[i].hash = blocks[i].hash
       /\ chain[i].version = blocks[i].version
       /\ chain[i].prevBlock = blocks[i].prevBlock
       /\ chain[i].merkleRoot = blocks[i].merkleRoot
       /\ chain[i].witnessRoot = blocks[i].witnessRoot
       /\ chain[i].treeRoot = blocks[i].treeRoot
       /\ chain[i].time = blocks[i].time
       /\ chain[i].bits = blocks[i].bits
       /\ chain[i].nonce = blocks[i].nonce
       /\ chain[i].solution = blocks[i].solution

\* C2: a chain of three entries over three different blocks
C2_Witness ==
  /\ Len(chain) = 3
  /\ isGenesis(chain[1])
  /\ chain[1].prevBlock = NULL_HASH
  /\ chain[3].height = 2
  /\ ~isGenesis(chain[3])
  /\ chain[3].prevBlock = chain[2].hash
  /\ chain[3].version = 536870912
  /\ chain[2].bits = 545259519

(***************************************************************************)
(* Properties of the raw and the JSON form of a chain entry.               *)
(***************************************************************************)
\* the entry the last toRaw, toJSON or fromJSON was about
SavedEntry == chain[saved.index]

\* an entry that the round trips are stated for
ValidEntry(e) == Len(e.nonce) = NONCE_SIZE /\ byteLength(e.chainwork) <= 32

\* the lengths of the first n of the parts
RECURSIVE SizeOf(_, _)
SizeOf(parts, n) == IF n = 0 THEN 0 ELSE Len(parts[n]) + SizeOf(parts, n - 1)

\* C8: toRaw returns the bytes of an entry whose chainwork is below 2^256,
\* fields in the order hash, height, version, prevBlock, merkleRoot,
\* witnessRoot, treeRoot, time, bits, nonce, solution, chainwork, and
\* fromRaw of these bytes has the same fields as the entry.
C8_RawRoundTrip ==
  (saved.op = "toRaw" /\ ValidEntry(SavedEntry)) =>
    /\ saved.out.ok
    /\ fromRaw(saved.out.data) = SavedEntry

\* what toRaw does write: every field in the stated order, so that reading
\* the bytes back gives the entry, in a buffer sized 32 bytes too long
RawFieldsDecode ==
  (saved.op = "toRaw" /\ ValidEntry(SavedEntry)) =>
    /\ fromRaw(saved.out.data) = SavedEntry
    /\ Len(saved.out.data) + 32 = saved.out.size
    /\ ~saved.out.ok

\* C9: fromJSON of the object toJSON returns for a valid entry (a nonce of
\* NONCE_SIZE = 20 bytes, a chainwork below 2^256) passes every assertion
\* and yields an entry equal to the exported one in every field.
C9_JSONRoundTrip ==
  (saved.op = "fromJSON" /\ ValidEntry(SavedEntry)) =>
    /\ saved.out.ok
    /\ saved.out.entry = <<SavedEntry>>

\* what fromJSON does with every exported valid entry: the assertion on the
\* length of the nonce string fails
JSONImportFails ==
  (saved.op = "fromJSON" /\ ValidEntry(SavedEntry)) =>
    /\ ~saved.out.ok
    /\ saved.out.failed = 323

\* C10: the header fields version, prevBlock, merkleRoot, witnessRoot,
\* treeRoot, time, bits and nonce of an entry occupy HEADER_SIZE = 196
\* bytes, the nonce starts at byte offset NONCE_POS = 176, and
\* NONCE_POS + NONCE_SIZE = HEADER_SIZE.
C10_HeaderSize ==
  \A i \in 1..Len(chain) :
    /\ HEADER_SIZE = 196
    /\ NONCE_POS = 176
    /\ NONCE_POS + NONCE_SIZE = HEADER_SIZE
    /\ Len(HeaderFields(chain[i])) = 8
    /\ SizeOf(HeaderFields(chain[i]), 8) = HEADER_SIZE
    /\ SizeOf(HeaderFields(chain[i]), 7) = NONCE_POS

\* what the header fields do occupy: 164 bytes, the nonce at offset 144
HeaderIs164 ==
  \A i \in 1..Len(chain) :
    /\ SizeOf(HeaderFields(chain[i]), 8) = 164
    /\ SizeOf(HeaderFields(chain[i]), 7) = 144
    /\ Len(chain[i].nonce) = NONCE_SIZE

(***************************************************************************)
(* covenants/view.js: the View, a Map from the hex form of a name hash to  *)
(* the Auction object the block under application works on.  An await is   *)
(* a suspension point: a call that missed the cache is suspended at        *)
(* db.getAuction and resumes with the store's answer in a later step.      *)
(***************************************************************************)
MaxNames == 2

MaxCalls == 4

MaxPending == 2

\* the name hashes asked for: 32-byte buffers
NameHashes == {Hash32(<<i>>) : i \in 1..MaxNames}

\* Map.has, Map.get, Map.set on a Map kept as its entries in insertion order
MapHas(m, k) == \E i \in 1..Len(m) : m[i][1] = k

MapGet(m, k) == m[CHOOSE i \in 1..Len(m) : m[i][1] = k][2]

\* Map.set that drops the entry
MutMapSet(m, k, v) == m

MapSet(m, k, v) ==
  IF MapHas(m, k)
  THEN <<>> \o [i \in 1..Len(m) |-> IF m[i][1] = k THEN <<k, v>> ELSE m[i]]
  ELSE Append(m, <<k, v>>)

MapKeys(m) == {m[i][1] : i \in 1..Len(m)}

\* the Map key that ignores the name hash
MutNameKey(nameHash) == BytesToHex(<<>>)

\* nameHash.toString('hex')
NameKey(nameHash) == BytesToHex(nameHash)

\* new Auction() with its nameHash set, and an Auction read from the store
FreshAuction(nameHash) == [nameHash |-> nameHash, loaded |-> FALSE]

StoredAuction(nameHash) == [nameHash |-> nameHash, loaded |-> TRUE]

\* new View(), over a store that holds any of the names
InitView ==
  /\ CompactIdle
  /\ RewardIdle
  /\ ChainIdle
  /\ ClientIdle
  /\ GenesisIdle
  /\ store \in SUBSET NameHashes
  /\ heap = <<>>
  /\ auctions = <<>>
  /\ issued = 0
  /\ pending = {}
  /\ returned = <<>>
  /\ reads = [n \in NameHashes |-> 0]
  /\ covenants = <<>>
  /\ applied = 0
  /\ dirty = {}
  /\ committed = FALSE
  /\ undo = <<>>

\* getAuction(db, nameHash) up to its return or its await
getAuction(nameHash) ==
  /\ issued < MaxCalls
  /\ issued' = issued + 1
  /\ LET hash == NameKey(nameHash)
     IN IF MapHas(auctions, hash)
        THEN /\ returned' = Append(returned, [id |-> issued + 1, nameHash |-> nameHash,
                                              obj |-> MapGet(auctions, hash), consulted |-> FALSE])
             /\ UNCHANGED <<pending, reads>>
        ELSE /\ pending' = pending \cup {[id |-> issued + 1, nameHash |-> nameHash]}
             /\ reads' = [reads EXCEPT ![nameHash] = @ + 1]
             /\ UNCHANGED returned
  /\ UNCHANGED <<store, heap, auctions, applyVars>>
  /\ UNCHANGED <<call, rewardVars, chainVars, clientVars, genesisVars>>

\* the objects db.getAuction may answer with: a newly decoded record, or
\* one it answered with before
StoreAnswers(nameHash) ==
  {Len(heap) + 1} \cup {o \in 1..Len(heap) : heap[o] = StoredAuction(nameHash)}

\* getAuction from the answer of db.getAuction to its return
getAuctionResume(c) ==
  /\ c \in pending
  /\ pending' = pending \ {c}
  /\ LET hash == NameKey(c.nameHash)
     IN \E o \in (IF c.nameHash \in store THEN StoreAnswers(c.nameHash) ELSE {Len(heap) + 1}) :
          /\ heap' = IF o <= Len(heap) THEN heap
                     ELSE Append(heap, IF c.nameHash \in store
                                       THEN StoredAuction(c.nameHash)
                                       ELSE FreshAuction(c.nameHash))
          /\ auctions' = MapSet(auctions, hash, o)
          /\ returned' = Append(returned, [id |-> c.id, nameHash |-> c.nameHash,
                                           obj |-> o, consulted |-> TRUE])
  /\ UNCHANGED <<store, issued, reads, applyVars>>
  /\ UNCHANGED <<call, rewardVars, chainVars, clientVars, genesisVars>>

\* the chain writer awaits each getAuction before it makes the next call
NextView ==
  \/ \E n \in NameHashes : pending = {} /\ getAuction(n)
  \/ \E c \in pending : getAuctionResume(c)

SpecView == InitView /\ [][NextView]_vars

\* callers that do not await one another: calls overlap at the store read
NextViewOverlap ==
  \/ \E n \in NameHashes : Cardinality(pending) < MaxPending /\ getAuction(n)
  \/ \E c \in pending : getAuctionResume(c)

SpecViewOverlap == InitView /\ [][NextViewOverlap]_vars

(***************************************************************************)
(* The application of a block to a View, and its commit.  The code that    *)
(* applies the covenants and AuctionUndo.fromView are described by the     *)
(* specification only: the chain writer takes the covenants of the block   *)
(* in order, asks the view for the auction of the covenant's name, waits   *)
(* for it and changes it; on commit the changed entries of the view are    *)
(* written to the store and the undo log is emitted, one tuple of name     *)
(* hash and prior state for each changed entry, in the order of the view.  *)
(***************************************************************************)
\* the blocks applied: up to MaxCalls covenants, a name hash may recur
Blocks == UNION {[1..n -> NameHashes] : n \in 0..MaxCalls}

\* the state an auction had in the store before the block: none for a
\* name the store had no record of
PriorState(o) == IF heap[o].loaded THEN <<StoredAuction(heap[o].nameHash)>> ELSE <<>>

\* AuctionUndo.fromView(view): a tuple for each changed entry of the view
AuctionUndoFromView(view) ==
  LET changed(e) == e[2] \in dirty
      es == SelectSeq(view, changed)
  IN <<>> \o [i \in 1..Len(es) |->
                [nameHash |-> heap[es[i][2]].nameHash, prior |-> PriorState(es[i][2])]]

\* toAuctionUndo(): the undo log of this view
toAuctionUndo == AuctionUndoFromView(auctions)

\* a new View for a block, over a store that holds any of the names
InitApply ==
  /\ CompactIdle
  /\ RewardIdle
  /\ ChainIdle
  /\ ClientIdle
  /\ GenesisIdle
  /\ store \in SUBSET NameHashes
  /\ heap = <<>>
  /\ auctions = <<>>
  /\ issued = 0
  /\ pending = {}
  /\ returned = <<>>
  /\ reads = [n \in NameHashes |-> 0]
  /\ covenants \in Blocks
  /\ applied = 0
  /\ dirty = {}
  /\ committed = FALSE
  /\ undo = <<>>

\* the writer asks the view for the auction of the next covenant
ApplyGetAuction ==
  /\ ~committed
  /\ applied < Len(covenants)
  /\ Len(returned) = applied
  /\ pending = {}
  /\ getAuction(covenants[applied + 1])

\* the covenant changes the auction the view returned for it
ApplyCovenant ==
  /\ ~committed
  /\ Len(returned) = applied + 1
  /\ dirty' = dirty \cup {returned[applied + 1].obj}
  /\ applied' = applied + 1
  /\ UNCHANGED <<store, heap, auctions, issued, pending, returned, reads>>
  /\ UNCHANGED <<covenants, committed, undo>>
  /\ UNCHANGED <<call, rewardVars, chainVars, clientVars, genesisVars>>

\* commit: the changed entries are written, the undo log is emitted
Commit ==
  /\ ~committed
  /\ applied = Len(covenants)
  /\ undo' = toAuctionUndo
  /\ store' = store \cup {heap[auctions[i][2]].nameHash :
                            i \in {j \in 1..Len(auctions) : auctions[j][2] \in dirty}}
  /\ committed' = TRUE
  /\ UNCHANGED <<heap, auctions, issued, pending, returned, reads>>
  /\ UNCHANGED <<covenants, applied, dirty>>
  /\ UNCHANGED <<call, rewardVars, chainVars, clientVars, genesisVars>>

NextApply ==
  \/ ApplyGetAuction
  \/ \E c \in pending : getAuctionResume(c)
  \/ ApplyCovenant
  \/ Commit

SpecApply == InitApply /\ [][NextApply]_vars

(***************************************************************************)
(* node/nodeclient.js: the client a wallet uses to follow the node.  The   *)
(* node and its chain are the environment: the chain keeps the entries it  *)
(* knows and the main chain, connects a block on the tip, disconnects the  *)
(* tip, and resets to an earlier block; the node emits 'connect',          *)
(* 'disconnect', 'tx' and 'reset' as it does so.  An entry is identified   *)
(* by its height and the fork it was mined on; the genesis entry is        *)
(* always on the main chain.                                               *)
(***************************************************************************)
MaxHeight == 2

MaxEvents == 3

MaxToggles == 3

\* the number of open() and close() calls that went through
Toggles == (2 * opens) - (IF opened THEN 1 ELSE 0)

\* the forks a block is mined on, and the transactions the node sees
Forks == {1, 2}

Txs == {1}

Entry(h, f) == [height |-> h, fork |-> f]

GenesisEntry == Entry(0, 1)

\* the block of an entry, with its transactions
NodeBlock(entry) == [entry |-> entry, txs |-> <<[block |-> entry, index |-> 0]>>]

ChainTip == mainChain[Len(mainChain)]

\* new NodeClient(node): no filter, not opened, listening to the node
InitClient ==
  /\ CompactIdle
  /\ RewardIdle
  /\ ChainIdle
  /\ ViewIdle
  /\ GenesisIdle
  /\ mainChain = <<GenesisEntry>>
  /\ entries = {GenesisEntry}
  /\ opened = FALSE
  /\ opens = 0
  /\ immediates = <<>>
  /\ nodeLog = <<>>
  /\ subLog = <<>>
  /\ lookups = {}
  /\ results = <<>>
  /\ filter = <<>>
  /\ poolFilter = <<>>
  /\ filterLoads = 0
  /\ ops = <<>>
  /\ scans = <<>>

\* the subscriber event a node event is forwarded as, disconnect confused
\* with connect
MutSubscriberEvent(type) ==
  CASE type = "connect" -> "block connect"
    [] type = "disconnect" -> "block connect"
    [] type = "tx" -> "tx"
    [] type = "reset" -> "chain reset"

\* the subscriber event a node event is forwarded as
SubscriberEvent(type) ==
  CASE type = "connect" -> "block connect"
    [] type = "disconnect" -> "block disconnect"
    [] type = "tx" -> "tx"
    [] type = "reset" -> "chain reset"

\* the arguments a node event is forwarded with
SubscriberArgs(type, args) ==
  CASE type = "connect" -> <<args[1], args[2].txs>>
    [] type = "disconnect" -> <<args[1]>>
    [] type = "tx" -> <<args[1]>>
    [] type = "reset" -> <<args[1]>>

\* a listener of init() that forwards whether the client is open or not
MutOnNode(log, isOpen, epoch, type, args) ==
  Append(log, [type |-> SubscriberEvent(type), args |-> SubscriberArgs(type, args),
               epoch |-> epoch])

\* a listener of init(): nothing unless opened, else one event emitted
OnNode(log, isOpen, epoch, type, args) ==
  IF ~isOpen
  THEN log
  ELSE Append(log, [type |-> SubscriberEvent(type), args |-> SubscriberArgs(type, args),
                    epoch |-> epoch])

\* the node emits an event: it is logged, and the client's listener runs
NodeEmit(type, args) ==
  /\ Len(nodeLog) < MaxEvents
  /\ nodeLog' = Append(nodeLog, [type |-> type, args |-> args, opened |-> opened])
  /\ subLog' = OnNode(subLog, opened, opens, type, args)

clientRest == <<lookups, results, filter, poolFilter, filterLoads, ops, scans>>

\* the chain connects a block of some fork on its tip
NodeConnect(f) ==
  /\ Len(mainChain) <= MaxHeight
  /\ LET entry == Entry(Len(mainChain), f)
     IN /\ mainChain' = Append(mainChain, entry)
        /\ entries' = entries \cup {entry}
        /\ NodeEmit("connect", <<entry, NodeBlock(entry)>>)
  /\ UNCHANGED <<opened, opens, immediates, clientRest>>
  /\ UNCHANGED <<call, rewardVars, chainVars, viewVars, genesisVars>>

\* the chain disconnects its tip, which stays known as a side-chain entry
NodeDisconnect ==
  /\ Len(mainChain) > 1
  /\ mainChain' = SubSeq(mainChain, 1, Len(mainChain) - 1)
  /\ NodeEmit("disconnect", <<ChainTip, NodeBlock(ChainTip)>>)
  /\ UNCHANGED <<entries, opened, opens, immediates, clientRest>>
  /\ UNCHANGED <<call, rewardVars, chainVars, viewVars, genesisVars>>

\* the node sees a transaction
NodeTx(t) ==
  /\ NodeEmit("tx", <<t>>)
  /\ UNCHANGED <<mainChain, entries, opened, opens, immediates, clientRest>>
  /\ UNCHANGED <<call, rewardVars, chainVars, viewVars, genesisVars>>

\* the chain is reset to an earlier block of the main chain
NodeReset(h) ==
  /\ h + 1 < Len(mainChain)
  /\ mainChain' = SubSeq(mainChain, 1, h + 1)
  /\ entries' = {e \in entries : e.height <= h}
  /\ NodeEmit("reset", <<mainChain[h + 1]>>)
  /\ UNCHANGED <<opened, opens, immediates, clientRest>>
  /\ UNCHANGED <<call, rewardVars, chainVars, viewVars, genesisVars>>

\* open(): refused when open, else opened and 'connect' left for later
open ==
  /\ ~opened
  /\ Toggles < MaxToggles
  /\ opened' = TRUE
  /\ opens' = opens + 1
  /\ immediates' = Append(immediates, "connect")
  /\ UNCHANGED <<mainChain, entries, nodeLog, subLog, clientRest>>
  /\ UNCHANGED <<call, rewardVars, chainVars, viewVars, genesisVars>>

\* close(): refused when not open, else closed and 'disconnect' left for later
close ==
  /\ opened
  /\ Toggles < MaxToggles
  /\ opened' = FALSE
  /\ immediates' = Append(immediates, "disconnect")
  /\ UNCHANGED <<mainChain, entries, opens, nodeLog, subLog, clientRest>>
  /\ UNCHANGED <<call, rewardVars, chainVars, viewVars, genesisVars>>

\* the event loop runs the oldest setImmediate callback
RunImmediate ==
  /\ Len(immediates) > 0
  /\ immediates' = Tail(immediates)
  /\ subLog' = Append(subLog, [type |-> Head(immediates), args |-> <<>>, epoch |-> opens])
  /\ UNCHANGED <<mainChain, entries, opened, opens, nodeLog, clientRest>>
  /\ UNCHANGED <<call, rewardVars, chainVars, viewVars, genesisVars>>

NextClient ==
  \/ \E f \in Forks : NodeConnect(f)
  \/ NodeDisconnect
  \/ \E t \in Txs : NodeTx(t)
  \/ \E h \in 0..MaxHeight : NodeReset(h)
  \/ open
  \/ close
  \/ RunImmediate

SpecClient == InitClient /\ [][NextClient]_vars

(***************************************************************************)
(* NodeClient.getEntry: two awaited questions to the chain.  The chain     *)
(* answers each from the state it is in when it answers, and the client    *)
(* goes on in a later step, with the chain free to move in between.        *)
(***************************************************************************)
MaxLookups == 2

\* the hashes asked for: of every entry there can be
Hashes == {Entry(h, f) : h \in 0..MaxHeight, f \in Forks}

OnMainChain(entry) == \E i \in 1..Len(mainChain) : mainChain[i] = entry

lookupRest == <<opened, opens, immediates, nodeLog, subLog, filter, poolFilter, filterLoads, ops,
                scans>>

\* getEntry(hash) up to its first await
getEntry(hash) ==
  /\ Cardinality(lookups) + Len(results) < MaxLookups
  /\ lookups' = lookups \cup {[id |-> Cardinality(lookups) + Len(results) + 1, hash |-> hash,
                               pc |-> "getEntry", entry |-> <<>>, main |-> FALSE]}
  /\ UNCHANGED <<mainChain, entries, results, lookupRest>>
  /\ UNCHANGED <<call, rewardVars, chainVars, viewVars, genesisVars>>

\* chain.getEntry answers: the entry of that hash if the chain knows one
ChainGetEntry(c) ==
  /\ c \in lookups
  /\ c.pc = "getEntry"
  /\ lookups' = (lookups \ {c}) \cup
       {[c EXCEPT !.pc = "entry",
                  !.entry = IF c.hash \in entries THEN <<c.hash>> ELSE <<>>]}
  /\ UNCHANGED <<mainChain, entries, results, lookupRest>>
  /\ UNCHANGED <<call, rewardVars, chainVars, viewVars, genesisVars>>

\* getEntry from the answer of chain.getEntry to its second await
getEntryAfterEntry(c) ==
  /\ c \in lookups
  /\ c.pc = "entry"
  /\ IF Len(c.entry) = 0
     THEN /\ lookups' = lookups \ {c}
          /\ results' = Append(results, [id |-> c.id, hash |-> c.hash, result |-> <<>>,
                                         onMain |-> FALSE])
     ELSE /\ lookups' = (lookups \ {c}) \cup {[c EXCEPT !.pc = "isMainChain"]}
          /\ UNCHANGED results
  /\ UNCHANGED <<mainChain, entries, lookupRest>>
  /\ UNCHANGED <<call, rewardVars, chainVars, viewVars, genesisVars>>

\* chain.isMainChain answers
ChainIsMainChain(c) ==
  /\ c \in lookups
  /\ c.pc = "isMainChain"
  /\ lookups' = (lookups \ {c}) \cup
       {[c EXCEPT !.pc = "main", !.main = OnMainChain(c.entry[1])]}
  /\ UNCHANGED <<mainChain, entries, results, lookupRest>>
  /\ UNCHANGED <<call, rewardVars, chainVars, viewVars, genesisVars>>

\* getEntry from the answer of chain.isMainChain to its return; onMain
\* records whether what is returned is on the main chain at that moment
getEntryAfterMainChain(c) ==
  /\ c \in lookups
  /\ c.pc = "main"
  /\ lookups' = lookups \ {c}
  /\ results' = Append(results, [id |-> c.id, hash |-> c.hash,
                                 result |-> IF ~c.main THEN <<>> ELSE c.entry,
                                 onMain |-> c.main /\ OnMainChain(c.entry[1])])
  /\ UNCHANGED <<mainChain, entries, lookupRest>>
  /\ UNCHANGED <<call, rewardVars, chainVars, viewVars, genesisVars>>

NextLookup ==
  \/ \E f \in Forks : NodeConnect(f)
  \/ NodeDisconnect
  \/ \E h \in Hashes : getEntry(h)
  \/ \E c \in lookups : ChainGetEntry(c)
  \/ \E c \in lookups : getEntryAfterEntry(c)
  \/ \E c \in lookups : ChainIsMainChain(c)
  \/ \E c \in lookups : getEntryAfterMainChain(c)

SpecLookup == InitClient /\ [][NextLookup]_vars

(***************************************************************************)
(* NodeClient's Bloom filter and rescan.  chain.scan and the pool are the  *)
(* environment: a rescan is recorded as the start and the filter the       *)
(* client passes to chain.scan, and the scan then calls the iterator of    *)
(* the client for each block of the main chain from the start on.          *)
(***************************************************************************)
MaxOps == 4

\* the Bloom filters a subscriber installs, the data it adds, the heights
\* it rescans from
Filters == {1, 2}

FilterData == {1}

Starts == {0, 1}

filterRest == <<mainChain, entries, opened, opens, immediates, nodeLog, lookups, results>>

\* setFilter(filter): kept by the client and given to the pool
setFilter(f) ==
  /\ Len(ops) < MaxOps
  /\ filter' = <<f>>
  /\ poolFilter' = <<f>>
  /\ ops' = Append(ops, [op |-> "setFilter", arg |-> f, scanned |-> <<>>])
  /\ UNCHANGED <<filterLoads, subLog, scans, filterRest>>
  /\ UNCHANGED <<call, rewardVars, chainVars, viewVars, genesisVars>>

\* addFilter(data): the pool is asked to load its filter again
addFilter(data) ==
  /\ Len(ops) < MaxOps
  /\ filterLoads' = filterLoads + 1
  /\ ops' = Append(ops, [op |-> "addFilter", arg |-> data, scanned |-> <<>>])
  /\ UNCHANGED <<filter, poolFilter, subLog, scans, filterRest>>
  /\ UNCHANGED <<call, rewardVars, chainVars, viewVars, genesisVars>>

\* resetFilter(): the pool is asked to load its filter again
resetFilter ==
  /\ Len(ops) < MaxOps
  /\ filterLoads' = filterLoads + 1
  /\ ops' = Append(ops, [op |-> "resetFilter", arg |-> 0, scanned |-> <<>>])
  /\ UNCHANGED <<filter, poolFilter, subLog, scans, filterRest>>
  /\ UNCHANGED <<call, rewardVars, chainVars, viewVars, genesisVars>>

\* the iterator rescan gives to chain.scan: the block is emitted to the
\* subscriber as 'block rescan', whether the client is open or not
rescanIter(log, epoch, entry, txs) ==
  Append(log, [type |-> "block rescan", args |-> <<entry, txs>>, epoch |-> epoch])

\* rescan(start): chain.scan is called with the start, the client's
\* filter and the iterator
rescan(start) ==
  /\ Len(ops) < MaxOps
  /\ ops' = Append(ops, [op |-> "rescan", arg |-> start, scanned |-> filter])
  /\ scans' = Append(scans, [filter |-> filter, next |-> start])
  /\ UNCHANGED <<filter, poolFilter, filterLoads, subLog, filterRest>>
  /\ UNCHANGED <<call, rewardVars, chainVars, viewVars, genesisVars>>

\* the transactions of a block a scan may hand to the iterator: the scan
\* decides which match, from none to all
ScanTxs(entry) == {<<>>, NodeBlock(entry).txs}

\* the oldest scan visits its next block of the main chain and calls the
\* iterator with the block's entry and the transactions it matched
ChainScan(txs) ==
  /\ Len(scans) > 0
  /\ Head(scans).next < Len(mainChain)
  /\ LET entry == mainChain[Head(scans).next + 1]
     IN /\ txs \in ScanTxs(entry)
        /\ subLog' = rescanIter(subLog, opens, entry, txs)
  /\ scans' = <<[Head(scans) EXCEPT !.next = @ + 1]>> \o Tail(scans)
  /\ UNCHANGED <<filter, poolFilter, filterLoads, ops, filterRest>>
  /\ UNCHANGED <<call, rewardVars, chainVars, viewVars, genesisVars>>

\* the oldest scan has passed the tip and ends
ChainScanEnd ==
  /\ Len(scans) > 0
  /\ Head(scans).next >= Len(mainChain)
  /\ scans' = Tail(scans)
  /\ UNCHANGED <<filter, poolFilter, filterLoads, ops, subLog, filterRest>>
  /\ UNCHANGED <<call, rewardVars, chainVars, viewVars, genesisVars>>

NextFilter ==
  \/ \E f \in Filters : setFilter(f)
  \/ \E d \in FilterData : addFilter(d)
  \/ resetFilter
  \/ \E s \in Starts : rescan(s)
  \/ \E txs \in ScanTxs(GenesisEntry) : ChainScan(txs)
  \/ ChainScanEnd
  \/ open
  \/ close
  \/ RunImmediate

SpecFilter == InitClient /\ [][NextFilter]_vars

(***************************************************************************)
(* scripts/genesis.js: createGenesisBlock.  A name is its sequence of      *)
(* ASCII codes, the root zone snapshot is the sequence of its keys in      *)
(* file order, each with a trailing dot.  A transaction hash is modelled   *)
(* by the content it is the hash of; TX keeps the hash it computed until   *)
(* refresh().  Addresses, resource records and Merkle roots are the        *)
(* terms they are built from.                                              *)
(***************************************************************************)
MaxRoot == 3

\* "B.", "a-b.", "a.", "ab."
RootNames == {<<66, 46>>, <<97, 45, 98, 46>>, <<97, 46>>, <<97, 98, 46>>}

\* root.json: the keys in file order, none twice
Roots ==
  UNION {{r \in [1..n -> RootNames] : \A i, j \in 1..n : i # j => r[i] # r[j]} : n \in 0..MaxRoot}

\* the record of a name in root.json
RootData(name) == [ttl |-> 172800, ds |-> <<"ds", name>>, glue |-> <<"glue", name>>]

\* the options createGenesisBlock is called with, one set for each network
Networks ==
  {[network |-> "main", time |-> 1514765688],
   [network |-> "testnet", time |-> 1514765689],
   [network |-> "regtest", time |-> 1514765690],
   [network |-> "simnet", time |-> 1514765691]}

ZERO_HASH == Zeros(32)

\* 0xffffffff as the four bytes of a u32
U32_MAX == <<255, 255, 255, 255>>

\* the default order of Array.prototype.sort: by code units, a proper
\* prefix first
LexLess(a, b) ==
  \E i \in 1..(Len(a) + 1) :
    /\ i <= Len(b)
    /\ \A j \in 1..(i - 1) : a[j] = b[j]
    /\ i > Len(a) \/ a[i] < b[i]

RECURSIVE InsertName(_, _)
InsertName(sorted, name) ==
  IF Len(sorted) = 0 THEN <<name>>
  ELSE IF LexLess(name, Head(sorted)) THEN <<name>> \o sorted
  ELSE <<Head(sorted)>> \o InsertName(Tail(sorted), name)

RECURSIVE SortFrom(_, _)
SortFrom(keys, sorted) ==
  IF Len(keys) = 0 THEN sorted ELSE SortFrom(Tail(keys), InsertName(sorted, Head(keys)))

\* Object.keys(root) left in file order
MutSortNames(keys) == keys

\* Object.keys(root).sort()
SortNames(keys) == SortFrom(keys, <<>>)

\* Buffer.from(name, 'ascii'), the dot kept
MutRawName(name) == name

\* Buffer.from(name.slice(0, -1), 'ascii')
RawName(name) == SubSeq(name, 1, Len(name) - 1)

\* Address.fromHash(key, 0)
AddressFromHash(key) == [hash |-> key, version |-> 0]

\* what a transaction hash covers
Digest(t) == [version |-> t.version, inputs |-> t.inputs, outputs |-> t.outputs,
              locktime |-> t.locktime]

\* tx.hash('hex'): the hash kept from an earlier call, else computed
TxHash(t) == IF Len(t.cache) = 1 THEN t.cache[1] ELSE Digest(t)

\* the transaction after tx.hash('hex')
Hashed(t) == [t EXCEPT !.cache = <<TxHash(t)>>]

\* tx.refresh()
refresh(t) == [t EXCEPT !.cache = <<>>]

\* tx.outpoint(index)
outpoint(t, index) == [hash |-> TxHash(t), index |-> U32Bytes(index)]

\* new Output() with value, address and covenant set
NewOutput(value, address, type, items) ==
  [value |-> value, address |-> address, covenant |-> [type |-> type, items |-> items]]

\* the script is loaded: the names are the sorted keys of the snapshot
InitGenesis ==
  /\ CompactIdle
  /\ RewardIdle
  /\ ChainIdle
  /\ ViewIdle
  /\ ClientIdle
  /\ root \in Roots
  /\ options \in Networks
  /\ names = SortNames(root)
  /\ gpc = "coinbase"
  /\ tx = NoTX
  /\ genesisBlock = NoBlock
  /\ claimer = NoTX
  /\ registry = NoTX

genesisRest == <<call, rewardVars, chainVars, viewVars, clientVars>>

\* the coinbase and the block around it
Coinbase ==
  /\ gpc = "coinbase"
  /\ LET coinbase ==
           [version |-> 0,
            inputs |-> <<[prevout |-> [hash |-> NULL_HASH, index |-> U32_MAX],
                          witness |-> <<"flags">>, sequence |-> U32_MAX]>>,
            outputs |-> <<
              NewOutput(GENESIS_REWARD, AddressFromHash("GENESIS_KEY"), "NONE", <<>>),
              NewOutput(MAX_INVESTORS, AddressFromHash(<<options.network, "investors">>), "NONE", <<>>),
              NewOutput(MAX_FOUNDATION, AddressFromHash(<<options.network, "foundation">>), "NONE", <<>>),
              NewOutput(MAX_CREATORS, AddressFromHash(<<options.network, "creators">>), "NONE", <<>>),
              NewOutput(MAX_AIRDROP, AddressFromHash(<<options.network, "airdrop">>), "NONE", <<>>)>>,
            locktime |-> 0,
            cache |-> <<>>]
     IN /\ tx' = Hashed(coinbase)
        /\ genesisBlock' = [version |-> 0,
                     prevBlock |-> NULL_HASH,
                     merkleRoot |-> TxHash(coinbase),
                     witnessRoot |-> <<"witnessHash", Digest(coinbase)>>,
                     trieRoot |-> "EMPTY_ROOT",
                     time |-> options.time,
                     bits |-> <<options.network, "pow.bits">>,
                     nonce |-> ZERO_NONCE,
                     solution |-> <<options.network, "cuckoo.size">>,
                     txs |-> <<Hashed(coinbase)>>]
  /\ gpc' = "claimer"
  /\ UNCHANGED <<root, options, names, claimer, registry>>
  /\ UNCHANGED genesisRest

\* the claimer with its input and its first output
Claimer ==
  /\ gpc = "claimer"
  /\ claimer' = [version |-> 0,
                 inputs |-> <<[prevout |-> [hash |-> TxHash(tx), index |-> U32Bytes(0)],
                               witness |-> <<>>, sequence |-> U32_MAX]>>,
                 outputs |-> <<NewOutput(GENESIS_REWARD, AddressFromHash("GENESIS_KEY"),
                                         "NONE", <<>>)>>,
                 locktime |-> 0,
                 cache |-> <<>>]
  /\ gpc' = "claims"
  /\ UNCHANGED <<root, options, names, tx, genesisBlock, registry>>
  /\ UNCHANGED genesisRest

\* one turn of the first loop: the claim of the next name
ClaimName ==
  /\ gpc = "claims"
  /\ Len(claimer.outputs) - 1 < Len(names)
  /\ LET name == names[Len(claimer.outputs)]
         claim == NewOutput(0, AddressFromHash(<<options.network, "claimant">>),
                            "CLAIM", <<RawName(name)>>)
     IN claimer' = [claimer EXCEPT !.outputs = Append(@, claim)]
  /\ UNCHANGED <<root, options, names, gpc, tx, genesisBlock, registry>>
  /\ UNCHANGED genesisRest

\* after the first loop: the claimer is refreshed, the registry is made
Registry ==
  /\ gpc = "claims"
  /\ Len(claimer.outputs) - 1 = Len(names)
  /\ claimer' = refresh(claimer)
  /\ registry' = [version |-> 0, inputs |-> <<>>, outputs |-> <<>>, locktime |-> 0,
                  cache |-> <<>>]
  /\ gpc' = "registers"
  /\ UNCHANGED <<root, options, names, tx, genesisBlock>>
  /\ UNCHANGED genesisRest

\* one turn of the second loop: the input and the output of names[i]
RegisterName ==
  /\ gpc = "registers"
  /\ Len(registry.inputs) < Len(names)
  /\ LET i == Len(registry.inputs)
         name == names[i + 1]
         data == RootData(name)
         res == <<"resource", [ttl |-> data.ttl, ds |-> data.ds, ns |-> data.glue]>>
         prev == outpoint(claimer, i + 1)
         claim == [prevout |-> prev, witness |-> <<>>, sequence |-> U32_MAX]
         update == NewOutput(0, AddressFromHash(<<options.network, "claimant">>),
                             "REGISTER", <<RawName(name), res, ZERO_HASH>>)
     IN /\ registry' = [registry EXCEPT !.inputs = Append(@, claim),
                                        !.outputs = Append(@, update)]
        /\ claimer' = Hashed(claimer)
  /\ UNCHANGED <<root, options, names, gpc, tx, genesisBlock>>
  /\ UNCHANGED genesisRest

\* after the second loop: the registry is refreshed, the block is completed
Finish ==
  /\ gpc = "registers"
  /\ Len(registry.inputs) = Len(names)
  /\ registry' = Hashed(refresh(registry))
  /\ claimer' = Hashed(claimer)
  /\ LET txs == Append(Append(genesisBlock.txs, Hashed(claimer)), Hashed(refresh(registry)))
     IN genesisBlock' = [genesisBlock EXCEPT
          !.txs = txs,
          !.merkleRoot = <<"merkle", <<>> \o [k \in 1..Len(txs) |-> Digest(txs[k])]>>,
          !.witnessRoot = <<"witness", <<>> \o [k \in 1..Len(txs) |-> Digest(txs[k])]>>]
  /\ gpc' = "done"
  /\ UNCHANGED <<root, options, names, tx>>
  /\ UNCHANGED genesisRest

NextGenesis ==
  \/ Coinbase
  \/ Claimer
  \/ ClaimName
  \/ Registry
  \/ RegisterName
  \/ Finish

SpecGenesis == InitGenesis /\ [][NextGenesis]_vars

(***************************************************************************)
(* Properties of the view.                                                 *)
(***************************************************************************)
\* the calls for the same name hash that returned before the i-th one
EarlierCalls(i) == {j \in 1..(i - 1) : returned[j].nameHash = returned[i].nameHash}

\* C11: with sequential calls, a call for a name hash that was asked for
\* before returns the object the earlier calls returned and does not read
\* the store; the first call for a name hash reads the store and returns
\* the stored record, or a fresh empty Auction with that name hash when
\* the store has none; what is returned is the view's entry for the name
\* hash, and the store is read at most once for each name hash.
C11_SequentialCaching ==
  /\ \A i \in 1..Len(returned) :
       LET r == returned[i]
       IN /\ MapHas(auctions, BytesToHex(r.nameHash))
          /\ MapGet(auctions, BytesToHex(r.nameHash)) = r.obj
          /\ heap[r.obj].nameHash = r.nameHash
          /\ r.consulted = (EarlierCalls(i) = {})
          /\ \A j \in EarlierCalls(i) : returned[j].obj = r.obj
          /\ r.consulted => heap[r.obj] = (IF r.nameHash \in store
                                           THEN StoredAuction(r.nameHash)
                                           ELSE FreshAuction(r.nameHash))
  /\ \A n \in NameHashes : reads[n] <= 1

\* a cache hit after a miss that created a fresh Auction, and a miss that
\* loaded a stored one
C11_Witness ==
  /\ \E i \in 1..Len(returned) :
       /\ ~returned[i].consulted
       /\ ~heap[returned[i].obj].loaded
  /\ \E i \in 1..Len(returned) :
       /\ returned[i].consulted
       /\ heap[returned[i].obj].loaded

\* the name hashes of the calls that have returned
CompletedNames == {returned[i].nameHash : i \in 1..Len(returned)}

\* the name hashes a Map has keys for
NamesOf(m) == {HexToBytes(k) : k \in MapKeys(m)}

\* the keys of a Map in insertion order
KeyList(m) == <<>> \o [i \in 1..Len(m) |-> m[i][1]]

\* the name hashes the covenants of the block refer to
CovenantNames == {covenants[i] : i \in 1..Len(covenants)}

\* the name hashes the undo log has tuples for
UndoNames == {undo[i].nameHash : i \in 1..Len(undo)}

\* C12: the keys of the view are exactly the name hashes for which a
\* getAuction call has returned, one key for each; a step keeps every
\* key in its place and only adds keys at the end; and once the block is
\* committed, the name hashes of its undo log, each there once, are
\* exactly the name hashes its covenants refer to, which are the keys of
\* the view.
C12_KeysAreRequestedNames ==
  /\ [](/\ NamesOf(auctions) = CompletedNames
        /\ Cardinality(MapKeys(auctions)) = Len(auctions)
        /\ committed =>
             /\ UndoNames = CovenantNames
             /\ Cardinality(UndoNames) = Len(undo)
             /\ NamesOf(auctions) = CovenantNames)
  /\ [][/\ Len(auctions') >= Len(auctions)
        /\ SubSeq(KeyList(auctions'), 1, Len(auctions)) = KeyList(auctions)]_vars

\* a committed block of three covenants on two names, one with a record
\* in the store and one without: two tuples in the undo log
C12_Witness ==
  /\ committed
  /\ Len(covenants) = 3
  /\ Len(undo) = 2
  /\ \E i, j \in 1..2 : Len(undo[i].prior) = 0 /\ Len(undo[j].prior) = 1
  /\ \E i \in 1..Len(returned) : ~returned[i].consulted

\* C17: in every interleaving of getAuction calls, every call that has
\* returned for a name hash returned the one object the view holds under
\* that name hash, so no caller holds an object the view does not reference.
C17_OneObjectPerName ==
  \A i \in 1..Len(returned) :
    /\ MapHas(auctions, NameKey(returned[i].nameHash))
    /\ returned[i].obj = MapGet(auctions, NameKey(returned[i].nameHash))

\* two calls for a name hash the store has no record of overlapped: each
\* made its own Auction, and the view references only the later one
OrphanedAuction ==
  \E i, j \in 1..Len(returned) :
    /\ i < j
    /\ returned[i].nameHash = returned[j].nameHash
    /\ returned[i].nameHash \notin store
    /\ returned[i].obj # returned[j].obj
    /\ MapGet(auctions, NameKey(returned[i].nameHash)) = returned[j].obj

(***************************************************************************)
(* Properties of the node client.                                          *)
(***************************************************************************)
IsBlockEvent(e) == e.type \in {"block connect", "block disconnect", "chain reset"}

\* the block events the subscriber received
BlockEvents == SelectSeq(subLog, IsBlockEvent)

\* the height of the tip a subscriber knows after an event
TipAfter(e) ==
  IF e.type = "block disconnect" THEN e.args[1].height - 1 ELSE e.args[1].height

\* next is the event a strictly ordered stream may carry after prev: a
\* block is connected on the tip, the tip itself is disconnected, and a
\* reset goes to an earlier block
Follows(prev, next) ==
  CASE next.type = "block connect" -> next.args[1].height = TipAfter(prev) + 1
    [] next.type = "block disconnect" ->
         /\ next.args[1].height = TipAfter(prev)
         /\ prev.type # "block disconnect" => prev.args[1] = next.args[1]
    [] next.type = "chain reset" -> next.args[1].height < TipAfter(prev)

\* C14 as stated: whatever open() and close() calls were made, each block
\* event the subscriber receives follows the one before it in strict order.
C14_OrderedStream ==
  \A i \in 1..(Len(BlockEvents) - 1) : Follows(BlockEvents[i], BlockEvents[i + 1])

\* C14: within one open period of the client, each block event the
\* subscriber receives follows the one before it in strict order: a
\* connect is one above the tip the stream left, a disconnect is of that
\* tip.
C14_OrderedWhileOpen ==
  \A i \in 1..(Len(BlockEvents) - 1) :
    BlockEvents[i].epoch = BlockEvents[i + 1].epoch
      => Follows(BlockEvents[i], BlockEvents[i + 1])

\* the subscriber followed a reorganisation in one open period, and
\* received block events in a second one
C14_Witness ==
  /\ \E i \in 1..(Len(BlockEvents) - 1) :
       /\ BlockEvents[i].type = "block disconnect"
       /\ BlockEvents[i + 1].type = "block connect"
       /\ BlockEvents[i].epoch = BlockEvents[i + 1].epoch
       /\ BlockEvents[i].args[1] # BlockEvents[i + 1].args[1]
  /\ \E i \in 1..(Len(BlockEvents) - 1) : BlockEvents[i].epoch # BlockEvents[i + 1].epoch

IsForwarded(e) == e.type \in {"block connect", "block disconnect", "tx", "chain reset"}

WasOpened(e) == e.opened

\* the events the subscriber received from the node, as name and arguments
Received ==
  LET s == SelectSeq(subLog, IsForwarded)
  IN <<>> \o [i \in 1..Len(s) |-> <<s[i].type, s[i].args>>]

\* the node events emitted while the client was open, as the subscriber
\* events they stand for
Due ==
  LET s == SelectSeq(nodeLog, WasOpened)
  IN <<>> \o [i \in 1..Len(s) |->
       CASE s[i].type = "connect" -> <<"block connect", <<s[i].args[1], s[i].args[2].txs>>>>
         [] s[i].type = "disconnect" -> <<"block disconnect", <<s[i].args[1]>>>>
         [] s[i].type = "tx" -> <<"tx", s[i].args>>
         [] s[i].type = "reset" -> <<"chain reset", s[i].args>>]

\* C18: the node events the subscriber received are exactly the events
\* the node emitted while the client was open, one for one and in the
\* same order; an event emitted while the client was closed is never
\* delivered, neither then nor after a later open().
C18_ForwardedWhileOpen == Received = Due

\* a late subscriber: the node connected a block while the client was
\* closed, and the subscriber received the disconnect of that block but
\* never its connect
C18_Witness ==
  \E i \in 1..Len(subLog) :
    /\ subLog[i].type = "block disconnect"
    /\ \A j \in 1..Len(subLog) :
         subLog[j].type = "block connect" => subLog[j].args[1] # subLog[i].args[1]
    /\ \E k \in 1..Len(nodeLog) :
         /\ nodeLog[k].type = "connect"
         /\ ~nodeLog[k].opened
         /\ nodeLog[k].args[1] = subLog[i].args[1]

\* C13: in every interleaving with reorganisations, an entry returned by
\* getEntry is on the main chain when it is returned.
C13_MainChainOnly ==
  \A i \in 1..Len(results) : Len(results[i].result) > 0 => results[i].onMain

\* the calls before the i-th that install or clear the filter
FilterCalls(i) == {j \in 1..(i - 1) : ops[j].op \in {"setFilter", "resetFilter"}}

\* the filter in force at the i-th call: the one of the latest setFilter,
\* none when there was no such call or a resetFilter came after it
InForce(i) ==
  IF FilterCalls(i) = {} THEN <<>>
  ELSE LET last == CHOOSE j \in FilterCalls(i) : \A k \in FilterCalls(i) : k <= j
       IN IF ops[last].op = "setFilter" THEN <<ops[last].arg>> ELSE <<>>

\* C15: every rescan scans with the filter most recently installed, and
\* with no filter, matching everything, when none was installed or the
\* filter was cleared with resetFilter.
C15_RescanFilter ==
  \A i \in 1..Len(ops) : ops[i].op = "rescan" => ops[i].scanned = InForce(i)

(***************************************************************************)
(* Properties of the genesis block.                                        *)
(***************************************************************************)
\* the reserved names in lexicographic order: the keys of the snapshot,
\* each once, every name before the names that are greater
SortedReserved ==
  /\ Len(names) = Len(root)
  /\ {names[i] : i \in 1..Len(names)} = {root[i] : i \in 1..Len(root)}
  /\ \A i \in 1..(Len(names) - 1) : LexLess(names[i], names[i + 1])

\* C16: in the finished block, with names the reserved names in
\* lexicographic order: the claimer has one input, spending coinbase
\* output 0, and 1 + N outputs, output 0 carrying GENESIS_REWARD and
\* output i+1 a zero-value CLAIM to the claimant whose only item is the
\* i-th name without its trailing dot; the registry has N inputs and N
\* outputs, input i spending claimer output i+1 and output i a
\* zero-value REGISTER whose first item is that name and whose last item
\* is the all-zero hash.
C16_GenesisNames ==
  gpc = "done" =>
    LET coinbase == genesisBlock.txs[1]
        claims == genesisBlock.txs[2]
        updates == genesisBlock.txs[3]
        N == Len(names)
        claimant == [hash |-> <<options.network, "claimant">>, version |-> 0]
    IN /\ SortedReserved
       /\ Len(genesisBlock.txs) = 3
       /\ Len(claims.inputs) = 1
       /\ claims.inputs[1].prevout = [hash |-> Digest(coinbase), index |-> <<0, 0, 0, 0>>]
       /\ coinbase.outputs[1].value = GENESIS_REWARD
       /\ Len(claims.outputs) = 1 + N
       /\ claims.outputs[1].value = GENESIS_REWARD
       /\ Len(updates.inputs) = N
       /\ Len(updates.outputs) = N
       /\ \A i \in 0..(N - 1) :
            LET name == names[i + 1]
                claim == claims.outputs[i + 2]
                update == updates.outputs[i + 1]
            IN /\ claim.value = 0
               /\ claim.address = claimant
               /\ claim.covenant.type = "CLAIM"
               /\ Len(claim.covenant.items) = 1
               /\ claim.covenant.items[1] \o <<46>> = name
               /\ updates.inputs[i + 1].prevout =
                    [hash |-> Digest(claims), index |-> <<i + 1, 0, 0, 0>>]
               /\ update.value = 0
               /\ update.covenant.type = "REGISTER"
               /\ update.covenant.items[1] \o <<46>> = name
               /\ update.covenant.items[Len(update.covenant.items)] = Zeros(32)

\* a finished block for three names that the snapshot lists in another
\* order than the sorted one
C16_Witness ==
  /\ gpc = "done"
  /\ Len(names) = 3
  /\ names # root
  /\ Len(genesisBlock.txs[3].outputs) = 3

(***************************************************************************)
(* The size of the raw form.                                               *)
(***************************************************************************)
\* C19: for every entry, getSize() is the number of bytes toRaw() writes
\* for it, so the buffer allocated from getSize() is filled exactly.
C19_SizeIsWritten ==
  (saved.op = "toRaw" /\ ValidEntry(SavedEntry)) =>
    /\ saved.out.size = getSize(SavedEntry)
    /\ Len(saved.out.data) = saved.out.size

====
